---- MODULE Spec2Model ----
(***************************************************************************)
(* A model of the property table of unit_tests/ex_ipspace_properties.cc:   *)
(* Table (add_column, token, localize, parse, find, size), Table::Row and  *)
(* the property variants FlagGroupProperty, TagProperty, StringProperty    *)
(* (and FlagProperty, whose parse is declared but not defined there).      *)
(*                                                                         *)
(* Text is a sequence of character codes; a TextView or MemSpan is a       *)
(* record [ptr, len] over one address space that holds the arena block of  *)
(* the table and the caller's source buffers.                              *)
(***************************************************************************)
EXTENDS Integers, Sequences, FiniteSets, TLC

VARIABLES
    pc,        \* position of the caller / of Table::parse: "idle", "line", "col"
    columns,   \* Table::_columns, each with its Property fields
    size,      \* Table::_size
    space,     \* Table::_space: disjoint [min, max, row] entries
    arena,     \* bytes of the block behind Table::_arena
    top,       \* bytes of the block handed out so far
    srcs,      \* the source buffers given to parse (text owned by the caller)
    live,      \* live[k]: the caller still keeps source buffer k
    src,       \* parse: the unread part of the source (TextView)
    line,      \* parse / token: the line cursor (TextView)
    span,      \* parse: the unfilled part of the row under construction
    row,       \* parse: Row{span} of the row under construction
    range,     \* parse: the IPRange of the current line
    colno,     \* parse: position of the for loop over _columns (1-based)
    toks,      \* the tokens handed to col->parse for the row under construction
    result,    \* return value of the last Table::parse call
    out,       \* std::cout: the diagnostics printed so far
    marked,    \* history: the (range, row) pairs handed to _space.mark
    calls,     \* history: the Property::parse calls made
    inputs,    \* history: the texts given to parse (and to the token driver)
    tk         \* history: the last Table::token call [in, tok, rest]

vars == <<pc, columns, size, space, arena, top, srcs, live, src, line, span, row,
          range, colno, toks, result, out, marked, calls, inputs, tk>>

-----------------------------------------------------------------------------
(* Bounds of the model.                                                    *)

MaxCols == 2          \* columns registered on a table
MaxLines == 2         \* lines parsed by one table, over all its parse calls
MaxParses == 2        \* parse calls on one table
MaxSrcLines == 3      \* lines of the text when one longer text is parsed
MaxLayoutCols == 4    \* columns registered when only the layout is explored
MaxLineLen == 6       \* length of the lines given to the tokenizer alone
MaxAddr == 4          \* addresses are 0 .. MaxAddr
ExtraTags == 2        \* distinct Tag tokens beyond the range of the index byte

-----------------------------------------------------------------------------
(* Characters.                                                             *)

SEP == 44             \* ','
QUOTE == 34           \* '"'
NEWLINE == 10         \* '\n'
TAGSEP == 59          \* ';'
DASH == 45            \* '-'
ByteValues == 256     \* values of a std::byte / uint8_t
ByteBits == 8         \* bits of a std::byte

Ch == [a |-> 97, b |-> 98, c |-> 99, d |-> 100, i |-> 105, n |-> 110, p |-> 112,
       q |-> 113, s |-> 115, t |-> 116, x |-> 120, y |-> 121, z |-> 122,
       A |-> 65, D |-> 68, I |-> 73, P |-> 80, T |-> 84,
       sp |-> 32, hash |-> 35, zero |-> 48]

\* ::isspace in the "C" locale.
IsSpace(c) == c \in {32, 9, 10, 11, 12, 13}

\* ::tolower in the "C" locale, as strcasecmp applies it.
Lower(c) == IF c \in 65..90 THEN c + 32 ELSE c

Min(a, b) == IF a < b THEN a ELSE b

-----------------------------------------------------------------------------
(* Memory: one address space.  The arena block starts at Base.arena, the   *)
(* k-th source buffer at Base.src + (k-1) * Base.stride.                   *)

Base == [arena |-> 4096, src |-> 8192, stride |-> 2048]

SrcAddr(k) == Base.src + (k - 1) * Base.stride

InArena(ar, a) == a >= Base.arena /\ a < Base.arena + Len(ar)

\* The source buffer an address lies in, or 0.
SrcOf(a) ==
    IF a < Base.src THEN 0
    ELSE LET k == ((a - Base.src) \div Base.stride) + 1
         IN  IF k <= Len(srcs) /\ a < SrcAddr(k) + Len(srcs[k]) THEN k ELSE 0

\* The byte at address a, the arena block holding ar.
Read(ar, a) ==
    IF InArena(ar, a) THEN ar[a - Base.arena + 1]
    ELSE IF SrcOf(a) # 0 THEN srcs[SrcOf(a)][a - SrcAddr(SrcOf(a)) + 1]
    ELSE 0

\* The characters a TextView refers to.
Deref(ar, v) == [i \in 1..v.len |-> Read(ar, v.ptr + i - 1)]

View(p, n) == [ptr |-> p, len |-> n]

\* memcpy / memset into the arena block: bytes bs stored from address a on.
Store(ar, a, bs) ==
    [i \in 1..Len(ar) |->
        IF i - 1 + Base.arena >= a /\ i - 1 + Base.arena < a + Len(bs)
        THEN bs[i - 1 + Base.arena - a + 1]
        ELSE ar[i]]

-----------------------------------------------------------------------------
(* swoc::TextView and swoc::MemSpan, as far as the table uses them.        *)

NPos == 2147483647    \* TextView::npos: above every length

\* v[i], i counted from 0.
At(ar, v, i) == Read(ar, v.ptr + i)

\* std::string_view::find_first_of(chars, pos), and find(c).
RECURSIVE FindFirstOf(_, _, _, _)
FindFirstOf(ar, v, chars, pos) ==
    IF pos >= v.len THEN NPos
    ELSE IF At(ar, v, pos) \in chars THEN pos
    ELSE FindFirstOf(ar, v, chars, pos + 1)

\* std::string_view::remove_prefix(n), n <= size.
RemovePrefix(v, n) == View(v.ptr + n, v.len - n)

\* TextView::take_prefix(n): the first n characters are returned, they and the
\* character at n are removed from the view.
TakePrefix(v, n) ==
    LET m == Min(n, v.len)
    IN  [prefix |-> View(v.ptr, m), rest |-> RemovePrefix(v, Min(m + 1, v.len))]

\* TextView::take_prefix_at(c).
TakePrefixAt(ar, v, c) == TakePrefix(v, FindFirstOf(ar, v, {c}, 0))

\* TextView::ltrim / rtrim / trim over a set of characters: every leading and
\* every trailing character of the set is dropped.
RECURSIVE LTrim(_, _, _)
LTrim(ar, v, chars) ==
    IF v.len > 0 /\ At(ar, v, 0) \in chars
    THEN LTrim(ar, View(v.ptr + 1, v.len - 1), chars)
    ELSE v

RECURSIVE RTrim(_, _, _)
RTrim(ar, v, chars) ==
    IF v.len > 0 /\ At(ar, v, v.len - 1) \in chars
    THEN RTrim(ar, View(v.ptr, v.len - 1), chars)
    ELSE v

Trim(ar, v, chars) == RTrim(ar, LTrim(ar, v, chars), chars)

SpaceChars == {c \in 0..127 : IsSpace(c)}

\* MemSpan::remove_prefix(count): clamped to the span.
SpanRemovePrefix(s, n) == View(s.ptr + Min(n, s.len), s.len - Min(n, s.len))

\* swoc strcasecmp(TextView, TextView) == 0, on the characters.
StrCaseEq(s, t) ==
    /\ Len(s) = Len(t)
    /\ \A i \in 1..Len(s) : Lower(s[i]) = Lower(t[i])

-----------------------------------------------------------------------------
(* Table::token.                                                           *)

\* A token scan that stops at the first separator, quoted or not.
TokenScanUnquoted(ar, ln, idx, in_quote_p) == FindFirstOf(ar, ln, {SEP}, idx)

\* The while loop of Table::token: the value of idx when it ends.
RECURSIVE TokenScan(_, _, _, _)
TokenScan(ar, ln, idx, in_quote_p) ==
    IF idx < ln.len
    THEN LET f == FindFirstOf(ar, ln, {QUOTE, SEP}, idx)
         IN  IF f = NPos THEN NPos
             ELSE IF At(ar, ln, f) = QUOTE THEN TokenScan(ar, ln, f + 1, ~in_quote_p)
             ELSE IF in_quote_p THEN TokenScan(ar, ln, f + 1, in_quote_p)
             ELSE f
    ELSE idx

\* Table::token(line): the token and the line cursor it leaves.
token(ar, ln) ==
    LET idx == TokenScan(ar, ln, 0, FALSE)
        t   == TakePrefix(ln, idx)
    IN  [tok  |-> Trim(ar, Trim(ar, t.prefix, SpaceChars), {QUOTE}),
         line |-> t.rest]

-----------------------------------------------------------------------------
(* The property variants.                                                  *)

FlagSIZE == 1         \* FlagProperty::SIZE = sizeof(bool)
FlagGroupSIZE == 1    \* FlagGroupProperty::SIZE = sizeof(uint8_t)
TagSIZE == 1          \* TagProperty::SIZE = sizeof(uint8_t)
StringSIZE == 16      \* StringProperty::SIZE = sizeof(TextView), LP64
WordSIZE == 8         \* sizeof(size_t) = sizeof(char const *), LP64

\* Property::size().
PropSize(kind) ==
    CASE kind = "Flag" -> FlagSIZE
      [] kind = "FlagGroup" -> FlagGroupSIZE
      [] kind = "Tag" -> TagSIZE
      [] kind = "String" -> StringSIZE

\* Property::needs_localized_token(): false unless overridden, and only
\* StringProperty overrides it.
NeedsLocalizedToken(kind) == kind = "String"

\* The object representation of an integer: n bytes, least significant first.
RECURSIVE LEBytes(_, _)
LEBytes(v, n) ==
    IF n = 0 THEN <<>> ELSE <<v % ByteValues>> \o LEBytes(v \div ByteValues, n - 1)

RECURSIVE FromLE(_)
FromLE(bs) ==
    IF bs = <<>> THEN 0 ELSE bs[1] + ByteValues * FromLE(Tail(bs))

\* The object representation of a TextView (a std::string_view: length, then
\* pointer), and the TextView that 16 bytes at address a represent.
ViewBytes(v) == LEBytes(v.len, WordSIZE) \o LEBytes(v.ptr, WordSIZE)

ViewAt(ar, a) ==
    View(FromLE([i \in 1..WordSIZE |-> Read(ar, a + WordSIZE + i - 1)]),
         FromLE([i \in 1..WordSIZE |-> Read(ar, a + i - 1)]))

\* Whether bit k of byte b is set, and b | (1 << k).
Bit(b, k) == (b \div (2 ^ k)) % 2 = 1

OrBit(b, k) == IF Bit(b, k) THEN b ELSE b + 2 ^ k

\* The value of j when the for loop over _tags in FlagGroupProperty::parse
\* ends: the position of the first key equal to tag, or the number of keys.
MatchIndex(names, tag) ==
    LET hits == {k \in 1..Len(names) : StrCaseEq(names[k], tag)}
    IN  IF hits = {} THEN Len(names)
        ELSE (CHOOSE k \in hits : \A h \in hits : k <= h) - 1

\* The while loop of FlagGroupProperty::parse.
RECURSIVE FlagGroupLoop(_, _, _, _)
FlagGroupLoop(ar, names, tkn, sp) ==
    IF tkn.len = 0 THEN [ok |-> TRUE, ar |-> ar]
    ELSE LET t   == TakePrefixAt(ar, tkn, TAGSEP)
             j   == MatchIndex(names, Deref(ar, t.prefix))
             a   == sp.ptr + (j \div ByteBits)
             ar1 == IF j < Len(names)
                    THEN Store(ar, a, <<OrBit(Read(ar, a), j % ByteBits)>>)
                    ELSE ar
         IN  IF j > Len(names)
             THEN [ok |-> FALSE, ar |-> ar1]
             ELSE FlagGroupLoop(ar1, names, t.rest, sp)

\* FlagGroupProperty::parse(token, span).
FlagGroupParse(ar, names, tkn, sp) ==
    IF Deref(ar, tkn) = <<DASH>>
    THEN [ok |-> TRUE, ar |-> ar]
    ELSE FlagGroupLoop(Store(ar, sp.ptr, [i \in 1..sp.len |-> 0]), names, tkn, sp)

\* TagProperty::parse(token, span): the position of token in _tags, appended
\* when it is not there, stored as a uint8_t.
TagSpot(ar, dict, tkn) ==
    LET text == Deref(ar, tkn)
        hits == {k \in 1..Len(dict) : StrCaseEq(text, Deref(ar, dict[k]))}
    IN  IF hits = {} THEN Len(dict)
        ELSE (CHOOSE k \in hits : \A h \in hits : k <= h) - 1

TagParse(ar, dict, tkn, sp) ==
    LET spot == TagSpot(ar, dict, tkn)
    IN  [ok   |-> TRUE,
         ar   |-> Store(ar, sp.ptr, <<spot % ByteValues>>),
         dict |-> IF spot = Len(dict) THEN Append(dict, tkn) ELSE dict]

\* StringProperty::parse(token, span): memcpy of the TextView itself.
StringParse(ar, tkn, sp) ==
    [ok |-> TRUE, ar |-> Store(ar, sp.ptr, ViewBytes(tkn))]

\* FlagProperty::parse(token, span): one of two literals, stored as a bool.
FlagParse(ar, tkn, sp) ==
    IF Deref(ar, tkn) = <<Ch.y>> THEN [ok |-> TRUE, ar |-> Store(ar, sp.ptr, <<1>>)]
    ELSE IF Deref(ar, tkn) = <<Ch.n>> THEN [ok |-> TRUE, ar |-> Store(ar, sp.ptr, <<0>>)]
    ELSE [ok |-> FALSE, ar |-> ar]

\* col->parse(token, span): virtual dispatch.
PropParse(ar, col, tkn, sp) ==
    CASE col.kind = "Flag" ->
            FlagParse(ar, tkn, sp) @@ [dict |-> col.dict]
      [] col.kind = "FlagGroup" ->
            FlagGroupParse(ar, col.names, tkn, sp) @@ [dict |-> col.dict]
      [] col.kind = "Tag" -> TagParse(ar, col.dict, tkn, sp)
      [] col.kind = "String" -> StringParse(ar, tkn, sp) @@ [dict |-> col.dict]

-----------------------------------------------------------------------------
(* Table::Row and the accessors.                                           *)

\* Row::span_for(prop).
span_for(rw, col) == SpanRemovePrefix(rw, col.offset)

\* FlagGroupProperty::is_set(flag_idx, row).
is_set(ar, col, flag_idx, rw) ==
    Bit(Read(ar, span_for(rw, col).ptr + (flag_idx \div ByteBits)), flag_idx % ByteBits)

\* A row comparison under which all rows are equal.
RowEqAlways(r1, r2) == TRUE

\* operator == (Table::Row const&, Table::Row const&).
RowEq(r1, r2) == FALSE

-----------------------------------------------------------------------------
(* swoc::IPRange and swoc::IPSpace<Row>, as far as the table uses them.    *)
(* An address is a number 0 .. MaxAddr, written as one digit.              *)

EmptyRange == [min |-> 1, max |-> 0]

IsAddr(c) == c >= Ch.zero /\ c <= Ch.zero + MaxAddr

\* IPRange{text}: "a" or "a-b" with a <= b; anything else is the empty range.
IPRange(text) ==
    IF Len(text) = 1 /\ IsAddr(text[1])
    THEN [min |-> text[1] - Ch.zero, max |-> text[1] - Ch.zero]
    ELSE IF /\ Len(text) = 3 /\ IsAddr(text[1]) /\ text[2] = DASH /\ IsAddr(text[3])
            /\ text[1] <= text[3]
    THEN [min |-> text[1] - Ch.zero, max |-> text[3] - Ch.zero]
    ELSE EmptyRange

RangeEmpty(rg) == rg.min > rg.max

\* IPSpace::mark(range, payload): the range takes the payload, what it covers
\* of older entries is cut away, and neighbours with an equal payload merge.
mark(sp, rg, rw) ==
    LET left  == {[min |-> e.min, max |-> Min(e.max, rg.min - 1), row |-> e.row] :
                    e \in {x \in sp : x.min < rg.min}}
        right == {[min |-> IF e.min > rg.max THEN e.min ELSE rg.max + 1,
                   max |-> e.max, row |-> e.row] :
                    e \in {x \in sp : x.max > rg.max}}
        kept  == left \cup right
        lnb   == {e \in kept : e.max + 1 = rg.min /\ RowEq(e.row, rw)}
        rnb   == {e \in kept : e.min = rg.max + 1 /\ RowEq(e.row, rw)}
        lo    == IF lnb = {} THEN rg.min ELSE (CHOOSE e \in lnb : TRUE).min
        hi    == IF rnb = {} THEN rg.max ELSE (CHOOSE e \in rnb : TRUE).max
    IN  (kept \ (lnb \cup rnb)) \cup {[min |-> lo, max |-> hi, row |-> rw]}

\* Table::find(addr): the rows found (none or one).
find(sp, addr) == {e.row : e \in {x \in sp : x.min <= addr /\ addr <= x.max}}

\* Table::size().
count(sp) == Cardinality(sp)

-----------------------------------------------------------------------------
(* Table::add_column and Table::localize.                                  *)

\* A property as constructed, before it is registered.
Prop(kind, names) == [kind |-> kind, names |-> names, dict |-> <<>>]

\* An add_column that counts the new column's size before placing it.
add_column_late(cols, sz, p) ==
    [columns |-> Append(cols, p @@ [offset |-> sz + PropSize(p.kind), idx |-> Len(cols)]),
     size    |-> sz + PropSize(p.kind)]

\* Table::add_column(col): the columns and the row size it leaves.
add_column(cols, sz, p) ==
    [columns |-> Append(cols, p @@ [offset |-> sz, idx |-> Len(cols)]),
     size    |-> sz + PropSize(p.kind)]

\* Table::localize(src): the text copied to fresh arena storage.
localize(ar, tp, v) ==
    [ar   |-> Store(ar, Base.arena + tp, Deref(ar, v)),
     top  |-> tp + v.len,
     view |-> View(Base.arena + tp, v.len)]

-----------------------------------------------------------------------------
(* The inputs explored: the properties registered and the texts parsed.    *)

\* Tag names of the FlagGroup columns: "p", "dz", "i", and "t1" .. "t9", one
\* name more than a byte has bits.
Names3 == << <<Ch.p>>, <<Ch.d, Ch.z>>, <<Ch.i>> >>

Names9 == [k \in 1..(ByteBits + 1) |-> <<Ch.t, Ch.zero + k>>]

Props ==
    {Prop("Flag", <<>>), Prop("FlagGroup", Names3), Prop("FlagGroup", Names9),
     Prop("Tag", <<>>), Prop("String", <<>>)}

\* Range tokens: "0-1", "2-3" (adjacent to it), "3" (inside "2-3"), and the
\* malformed "x".
RangeTokens == { <<Ch.zero, DASH, Ch.zero + 1>>, <<Ch.zero + 2, DASH, Ch.zero + 3>>,
                 <<Ch.zero + 3>> }

\* "0-1" and "3" alone.
ApartRangeTokens == { <<Ch.zero, DASH, Ch.zero + 1>>, <<Ch.zero + 3>> }

BadRangeToken == <<Ch.x>>

\* Column tokens, by property.
\*   Flag:       y | q | n
\*   FlagGroup:  - | dz;P | p;x            (Names3)
\*               - | t9 | T9;t1            (Names9)
\*   Tag:        a | A | b
\*   String:     s |  "x,y" | (nothing)
TokensFor(p) ==
    CASE p.kind = "Flag" -> << <<Ch.y>>, <<Ch.q>>, <<Ch.n>> >>
      [] p.kind = "FlagGroup" /\ p.names = Names3 ->
            << <<DASH>>, <<Ch.d, Ch.z, TAGSEP, Ch.P>>, <<Ch.p, TAGSEP, Ch.x>> >>
      [] p.kind = "FlagGroup" /\ p.names = Names9 ->
            << <<DASH>>, <<Ch.t, Ch.zero + 9>>,
               <<Ch.T, Ch.zero + 9, TAGSEP, Ch.t, Ch.zero + 1>> >>
      [] p.kind = "Tag" -> << <<Ch.a>>, <<Ch.A>>, <<Ch.b>> >>
      [] p.kind = "String" ->
            << <<Ch.s>>, <<Ch.sp, QUOTE, Ch.x, SEP, Ch.y, QUOTE>>, <<>> >>

TokenChoices == {1, 2, 3}

\* ",token" for each column from the k-th on: column k takes its token number
\* v + k - 1, counted cyclically.
RECURSIVE Fields(_, _, _)
Fields(cols, k, v) ==
    IF k > Len(cols) THEN <<>>
    ELSE LET ts == TokensFor(cols[k])
         IN  <<SEP>> \o ts[((v + k - 2) % Len(ts)) + 1] \o Fields(cols, k + 1, v)

\* The lines for a table: a range token and a token for each column, a line
\* with a malformed range token, and the empty line.
Lines(cols, ranges, choices) ==
    { r \o Fields(cols, 1, v) : r \in ranges, v \in choices }
        \cup { BadRangeToken \o Fields(cols, 1, 1), <<>> }

RECURSIVE Glue(_)
Glue(ls) ==
    IF ls = <<>> THEN <<>>
    ELSE IF Len(ls) = 1 THEN ls[1]
    ELSE ls[1] \o <<NEWLINE>> \o Glue(Tail(ls))

\* Source texts of at most n of the lines ls, separated by '\n': a text whose
\* last line is the empty one ends in '\n'.
SourcesOf(ls, n) == UNION { { Glue(t) : t \in [1..k -> ls] } : k \in 1..n }

\* The lines of a text as SourcesOf counts them (the empty text as one).
NumLines(text) == Cardinality({i \in 1..Len(text) : text[i] = NEWLINE}) + 1

RECURSIVE LinesUsed(_)
LinesUsed(ins) == IF ins = <<>> THEN 0 ELSE NumLines(ins[1]) + LinesUsed(Tail(ins))

\* What a malloc'ed block may hold before it is written: every byte 0, or
\* every byte 0xA5.
ArenaFill == {0, 165}

\* Bytes of the arena block: the rows, the localized tokens, and one word of
\* slack.
ArenaCap == MaxLines * MaxCols * (StringSIZE + MaxLineLen) + WordSIZE

NoView == View(0, 0)

-----------------------------------------------------------------------------
(* The table's life: construction, add_column, parse.                      *)

InitWith(cap) ==
    /\ pc = "idle"
    /\ columns = <<>>
    /\ size = 0
    /\ space = {}
    /\ arena \in {[i \in 1..cap |-> b] : b \in ArenaFill}
    /\ top = 0
    /\ srcs = <<>>
    /\ live = <<>>
    /\ src = NoView
    /\ line = NoView
    /\ span = NoView
    /\ row = NoView
    /\ range = EmptyRange
    /\ colno = 0
    /\ toks = <<>>
    /\ result = "none"
    /\ out = <<>>
    /\ marked = <<>>
    /\ calls = <<>>
    /\ inputs = <<>>
    /\ tk = [n |-> 0, in |-> NoView, tok |-> NoView, rest |-> NoView]

Init == InitWith(ArenaCap)

\* table.add_column(std::make_unique<...>(...)), before anything is parsed.
AddColumn(props, maxc) ==
    /\ pc = "idle"
    /\ inputs = <<>>
    /\ Len(columns) < maxc
    /\ \E p \in props :
        LET r == add_column(columns, size, p)
        IN  /\ columns' = r.columns
            /\ size' = r.size
    /\ UNCHANGED <<pc, space, arena, top, srcs, live, src, line, span, row, range,
                   colno, toks, result, out, marked, calls, inputs, tk>>

\* table.parse(src) is called: src is a text the caller owns.
ParseBegin(texts) ==
    /\ pc = "idle"
    /\ Len(inputs) < MaxParses
    /\ \E text \in texts :
        /\ srcs' = Append(srcs, text)
        /\ inputs' = Append(inputs, text)
        /\ src' = View(SrcAddr(Len(srcs) + 1), Len(text))
    /\ live' = Append(live, TRUE)
    /\ result' = "none"
    /\ pc' = "line"
    /\ UNCHANGED <<columns, size, space, arena, top, line, span, row, range, colno,
                   toks, out, marked, calls, tk>>

\* One turn of the while loop of Table::parse up to the for loop: the line and
\* its range token are taken; an empty range is reported and the line dropped,
\* otherwise the row is allocated.
ParseLine ==
    /\ pc = "line"
    /\ src.len > 0
    /\ LET l  == TakePrefixAt(arena, src, NEWLINE)
           rt == TakePrefixAt(arena, l.prefix, SEP)
           rg == IPRange(Deref(arena, rt.prefix))
       IN  /\ src' = l.rest
           /\ line' = rt.rest
           /\ range' = rg
           /\ IF RangeEmpty(rg)
              THEN /\ out' = Append(out, [what |-> "range", col |-> 0,
                                          text |-> Deref(arena, rt.prefix)])
                   /\ UNCHANGED <<pc, top, span, row, colno, toks>>
              ELSE /\ span' = View(Base.arena + top, size)
                   /\ row' = View(Base.arena + top, size)
                   /\ top' = top + size
                   /\ colno' = 1
                   /\ toks' = <<>>
                   /\ pc' = "col"
                   /\ out' = out
    /\ UNCHANGED <<columns, size, space, arena, srcs, live, result, marked, calls,
                   inputs, tk>>

\* One turn of the for loop over _columns: the token is extracted, localized
\* if the column asks for it, and parsed into the next bytes of the row.
ParseColumn ==
    /\ pc = "col"
    /\ colno <= Len(columns)
    /\ LET col == columns[colno]
           t   == token(arena, line)
           loc == IF NeedsLocalizedToken(col.kind)
                  THEN localize(arena, top, t.tok)
                  ELSE [ar |-> arena, top |-> top, view |-> t.tok]
           sp  == View(span.ptr, PropSize(col.kind))
           r   == PropParse(loc.ar, col, loc.view, sp)
       IN  /\ line' = t.line
           /\ top' = loc.top
           /\ arena' = r.ar
           /\ columns' = [columns EXCEPT ![colno].dict = r.dict]
           /\ out' = IF r.ok THEN out
                     ELSE Append(out, [what |-> "value", col |-> col.idx,
                                       text |-> Deref(loc.ar, loc.view)])
           /\ span' = SpanRemovePrefix(span, PropSize(col.kind))
           /\ toks' = Append(toks, Deref(loc.ar, loc.view))
           /\ calls' = Append(calls, [col |-> colno, text |-> Deref(loc.ar, loc.view),
                                      ok |-> r.ok, field |-> sp,
                                      byte |-> Read(r.ar, sp.ptr)])
           /\ tk' = [n |-> tk.n + 1, in |-> line, tok |-> t.tok, rest |-> t.line]
    /\ colno' = colno + 1
    /\ UNCHANGED <<pc, size, space, srcs, live, src, row, range, result, marked, inputs>>

\* The end of the for loop: _space.mark(range, std::move(row)).
ParseMark ==
    /\ pc = "col"
    /\ colno > Len(columns)
    /\ space' = mark(space, range, row)
    /\ marked' = Append(marked, [range |-> range, row |-> row, toks |-> toks,
                                 input |-> Len(inputs)])
    /\ pc' = "line"
    /\ UNCHANGED <<columns, size, arena, top, srcs, live, src, line, span, row, range,
                   colno, toks, result, out, calls, inputs, tk>>

\* The end of the while loop: return true.
ParseReturn ==
    /\ pc = "line"
    /\ src.len = 0
    /\ result' = "true"
    /\ pc' = "idle"
    /\ UNCHANGED <<columns, size, space, arena, top, srcs, live, src, line, span, row,
                   range, colno, toks, out, marked, calls, inputs, tk>>

\* The caller gives up a source text between two parse calls: its storage
\* keeps its bytes or is overwritten.
Discard ==
    /\ pc = "idle"
    /\ Len(inputs) < MaxParses
    /\ \E k \in 1..Len(srcs) :
        /\ live[k]
        /\ live' = [live EXCEPT ![k] = FALSE]
        /\ \E bs \in {srcs[k], [i \in 1..Len(srcs[k]) |-> Ch.hash]} :
            srcs' = [srcs EXCEPT ![k] = bs]
    /\ UNCHANGED <<pc, columns, size, space, arena, top, src, line, span, row, range,
                   colno, toks, result, out, marked, calls, inputs, tk>>

Next ==
    \/ AddColumn(Props, MaxCols)
    \/ ParseBegin(SourcesOf(Lines(columns, ApartRangeTokens, TokenChoices),
                             MaxLines - LinesUsed(inputs)))
    \/ ParseLine
    \/ ParseColumn
    \/ ParseMark
    \/ ParseReturn
    \/ Discard

Spec == Init /\ [][Next]_vars

-----------------------------------------------------------------------------
(* The layout alone: add_column calls on an empty table.                   *)

NextLayout == AddColumn(Props, MaxLayoutCols)

SpecLayout == Init /\ [][NextLayout]_vars

-----------------------------------------------------------------------------------------------------------------------------------------------------
(* One parse of a longer text by a table of a Flag and a String column.    *)

LineProps == <<Prop("Flag", <<>>), Prop("String", <<>>)>>

NextLines ==
    \/ AddColumn({LineProps[k] : k \in {Len(columns) + 1} \cap DOMAIN LineProps},
                 Len(LineProps))
    \/ ParseBegin(IF Len(columns) = Len(LineProps) /\ inputs = <<>>
                  THEN SourcesOf(Lines(columns, RangeTokens, {1, 2}), MaxSrcLines)
                  ELSE {})
    \/ ParseLine
    \/ ParseColumn
    \/ ParseMark
    \/ ParseReturn

LinesArenaCap == MaxSrcLines * (FlagSIZE + StringSIZE + MaxLineLen) + WordSIZE

InitLines == InitWith(LinesArenaCap)

SpecLines == InitLines /\ [][NextLines]_vars

-----
(* The tokenizer alone: Table::token called on a line until it is used up. *)

TokenAlphabet == {Ch.a, Ch.sp, SEP, QUOTE}

\* "a,b",c
QuotedExample == <<QUOTE, Ch.a, SEP, Ch.b, QUOTE, SEP, Ch.c>>

TokenLines ==
    UNION { [1..k -> TokenAlphabet] : k \in 0..MaxLineLen } \cup {QuotedExample}

InitToken ==
    /\ pc = "token"
    /\ columns = <<>>
    /\ size = 0
    /\ space = {}
    /\ arena = <<>>
    /\ top = 0
    /\ \E text \in TokenLines :
        /\ srcs = <<text>>
        /\ inputs = <<text>>
        /\ line = View(SrcAddr(1), Len(text))
    /\ live = <<TRUE>>
    /\ src = NoView
    /\ span = NoView
    /\ row = NoView
    /\ range = EmptyRange
    /\ colno = 0
    /\ toks = <<>>
    /\ result = "none"
    /\ out = <<>>
    /\ marked = <<>>
    /\ calls = <<>>
    /\ tk = [n |-> 0, in |-> NoView, tok |-> NoView, rest |-> NoView]

\* token(line), as the for loop of Table::parse calls it.
TokenCall ==
    /\ pc = "token"
    /\ tk.n = 0 \/ line.len > 0
    /\ LET t == token(arena, line)
       IN  /\ tk' = [n |-> tk.n + 1, in |-> line, tok |-> t.tok, rest |-> t.line]
           /\ line' = t.line
           /\ toks' = Append(toks, Deref(arena, t.tok))
    /\ UNCHANGED <<pc, columns, size, space, arena, top, srcs, live, src, span, row,
                   range, colno, result, out, marked, calls, inputs>>

NextToken == TokenCall

SpecToken == InitToken /\ [][NextToken]_vars

-----------------------------------------------------------------------------
(* One Tag column fed more distinct tokens than its index byte can number. *)

TagTokenCount == ByteValues + ExtraTags

\* The k-th token: two letters, "aa", "ab", ...; and in upper case.
TagToken(k) == <<Ch.a + (k \div 26), Ch.a + (k % 26)>>

TagTokenUpper(k) == <<Ch.A + (k \div 26), Ch.A + (k % 26)>>

\* "0,aa\n0,ab\n...": a line of five characters for each token, the last one
\* without its '\n'; the tokens in upper case if upper.
TagText(upper) ==
    [i \in 1..(5 * TagTokenCount - 1) |->
        LET k == (i - 1) \div 5
            j == (i - 1) % 5
            t == IF upper THEN TagTokenUpper(k) ELSE TagToken(k)
        IN  CASE j = 0 -> Ch.zero
              [] j = 1 -> SEP
              [] j = 2 -> t[1]
              [] j = 3 -> t[2]
              [] j = 4 -> NEWLINE]

TagSources == {TagText(FALSE), TagText(TRUE)}

TagArenaCap == MaxParses * TagTokenCount + WordSIZE

InitTags == InitWith(TagArenaCap)

NextTags ==
    \/ AddColumn({Prop("Tag", <<>>)}, 1)
    \/ ParseBegin(IF columns = <<>> THEN {} ELSE TagSources)
    \/ ParseLine
    \/ ParseColumn
    \/ ParseMark
    \/ ParseReturn

SpecTags == InitTags /\ [][NextTags]_vars

-----------------------------------------------------------------------------
(* What the claims speak of, said on texts rather than on views.           *)

RECURSIVE SumSizes(_)
SumSizes(cols) ==
    IF cols = <<>> THEN 0 ELSE PropSize(cols[1].kind) + SumSizes(Tail(cols))

\* The positions of c in text that end a piece: all of them, or, with
\* quoting, those with an even number of quote characters before them.
Ends(text, c, quoting) ==
    {k \in 1..Len(text) :
        /\ text[k] = c
        /\ quoting =>
            Cardinality({h \in 1..(k - 1) : text[h] = QUOTE}) % 2 = 0}

FirstEnd(text, c, quoting) ==
    IF Ends(text, c, quoting) = {} THEN Len(text) + 1
    ELSE CHOOSE k \in Ends(text, c, quoting) : \A h \in Ends(text, c, quoting) : k <= h

\* The text before the first such position, and the text after it.
Before(text, c, quoting) == SubSeq(text, 1, FirstEnd(text, c, quoting) - 1)

After(text, c, quoting) == SubSeq(text, FirstEnd(text, c, quoting) + 1, Len(text))

\* text without the characters of chars that surround it.
Stripped(text, chars) ==
    LET keep == {k \in 1..Len(text) : text[k] \notin chars}
    IN  IF keep = {} THEN <<>>
        ELSE SubSeq(text, CHOOSE k \in keep : \A h \in keep : k <= h,
                          CHOOSE k \in keep : \A h \in keep : k >= h)

\* The field a line starts with, as the tokenizer is to return it.
Field(text) == Stripped(Stripped(Before(text, SEP, TRUE), SpaceChars), {QUOTE})

\* The first n fields of a line.
RECURSIVE FieldsOf(_, _)
FieldsOf(text, n) ==
    IF n = 0 THEN <<>> ELSE <<Field(text)>> \o FieldsOf(After(text, SEP, TRUE), n - 1)

\* The pieces of text that c separates; no piece follows a final c.
RECURSIVE Pieces(_, _)
Pieces(text, c) ==
    IF text = <<>> THEN <<>>
    ELSE <<Before(text, c, FALSE)>> \o Pieces(After(text, c, FALSE), c)

RangeOfLine(ln) == IPRange(Before(ln, SEP, FALSE))

HasRange(ln) == ~RangeEmpty(RangeOfLine(ln))

\* The lines of all texts parsed so far, in order.
RECURSIVE AllLines(_)
AllLines(ins) ==
    IF ins = <<>> THEN <<>> ELSE Pieces(ins[1], NEWLINE) \o AllLines(Tail(ins))

ValidLines == SelectSeq(AllLines(inputs), HasRange)

Disjoint(r1, r2) == r1.max < r2.min \/ r2.max < r1.min

\* Whether name is one of the ';'-separated names of the token text.
Named(name, text) ==
    \E k \in 1..Len(Pieces(text, TAGSEP)) : StrCaseEq(name, Pieces(text, TAGSEP)[k])

AllKnown(names, text) ==
    \A k \in 1..Len(Pieces(text, TAGSEP)) :
        \E h \in 1..Len(names) : StrCaseEq(names[h], Pieces(text, TAGSEP)[k])

ParseDone == pc = "idle" /\ inputs # <<>>

-----------------------------------------------------------------------------
(* The claims.                                                             *)

\* C1: after any sequence of add_column calls on an empty table the i-th
\* column has idx i (from 0), the first has offset 0, each later one starts
\* where the one before it ends, and the row size is the sum of the sizes.
C1_Layout ==
    /\ \A i \in 1..Len(columns) : columns[i].idx = i - 1
    /\ columns # <<>> => columns[1].offset = 0
    /\ \A i \in 1..(Len(columns) - 1) :
        columns[i + 1].offset = columns[i].offset + PropSize(columns[i].kind)
    /\ size = SumSizes(columns)

C1_Witness ==
    /\ Len(columns) = 3
    /\ columns[1].kind = "Tag"
    /\ columns[2].kind = "String"
    /\ columns[3].kind = "FlagGroup"
    /\ columns[3].offset = TagSIZE + StringSIZE

\* C2: for a line with a valid range whose FlagGroup token names only tags of
\* the column, the row found for the addresses of the range has bit i set
\* exactly if tag i is named in the token, for every tag position i.
C2_FlagsAsNamed ==
    \A m \in 1..Len(marked) : \A c \in 1..Len(columns) :
        ( /\ columns[c].kind = "FlagGroup"
          /\ marked[m].toks[c] # <<DASH>>
          /\ AllKnown(columns[c].names, marked[m].toks[c])
          /\ \E a \in 0..MaxAddr : find(space, a) = {marked[m].row} )
        => \A i \in 1..Len(columns[c].names) :
              is_set(arena, columns[c], i - 1, marked[m].row)
                <=> Named(columns[c].names[i], marked[m].toks[c])

\* C3: FlagGroupProperty::parse fails whenever the token is not the sentinel
\* and one of its sub-tokens is no tag of the column.
C3_UnknownTagFails ==
    \A k \in 1..Len(calls) :
        ( /\ columns[calls[k].col].kind = "FlagGroup"
          /\ calls[k].text # <<DASH>>
          /\ ~AllKnown(columns[calls[k].col].names, calls[k].text) )
        => ~calls[k].ok

\* C4: a row whose FlagGroup token is the sentinel "-" has no bit set in
\* that column, whatever the row's storage held before.
C4_SentinelClears ==
    \A m \in 1..Len(marked) : \A c \in 1..Len(columns) :
        (columns[c].kind = "FlagGroup" /\ marked[m].toks[c] = <<DASH>>)
        => \A i \in 0..(ByteBits * FlagGroupSIZE - 1) :
              ~is_set(arena, columns[c], i, marked[m].row)

\* C5: on one Tag column the index byte written for a token equals the byte
\* written for an earlier token exactly if the two tokens are equal ignoring
\* case (said of the latest call against every earlier one).
C5_TagIndex ==
    \A j \in {Len(calls)} \ {0} : \A i \in 1..(j - 1) :
        ( /\ columns[calls[j].col].kind = "Tag"
          /\ calls[i].col = calls[j].col )
        => ( calls[i].byte = calls[j].byte
                <=> StrCaseEq(calls[i].text, calls[j].text) )

\* C6: Table::token returns the text before the first unquoted separator (all
\* of the line if there is none) without the surrounding whitespace and then
\* the surrounding quotes, and leaves the cursor just after that separator.
C6_Token ==
    tk.n > 0 =>
        LET text == Deref(arena, tk.in)
        IN  /\ Deref(arena, tk.tok) = Field(text)
            /\ Deref(arena, tk.rest) = After(text, SEP, TRUE)
            /\ tk.rest.ptr = tk.in.ptr + Min(FirstEnd(text, SEP, TRUE), Len(text))

C6_Witness ==
    /\ tk.n = 1
    /\ Deref(arena, tk.in) = QuotedExample
    /\ Deref(arena, tk.tok) = <<Ch.a, SEP, Ch.b>>
    /\ Deref(arena, tk.rest) = <<Ch.c>>

\* C7: span_for(property) of a row is its bytes from the property's offset,
\* property.size() of them.
C7_SpanFor ==
    \A m \in 1..Len(marked) : \A c \in 1..Len(columns) :
        span_for(marked[m].row, columns[c])
            = View(marked[m].row.ptr + columns[c].offset, PropSize(columns[c].kind))

C9_TextInArena ==
    ParseDone =>
        \A c \in 1..Len(columns) :
            /\ \A k \in 1..Len(columns[c].dict) :
                 InArena(arena, columns[c].dict[k].ptr)
            /\ columns[c].kind = "String" =>
                 \A m \in 1..Len(marked) :
                    InArena(arena, ViewAt(arena, marked[m].row.ptr + columns[c].offset).ptr)

\* C10: parsing the token of a column changes no byte but those of the
\* column's field of the row under construction (storage handed out by the
\* step itself aside).
C10_Frame ==
    [][ (pc = "col" /\ colno <= Len(columns) /\ colno' = colno + 1) =>
            \A i \in 1..Len(arena) :
                LET a == Base.arena + i - 1
                IN  ( /\ ~(a >= span.ptr /\ a < span.ptr + PropSize(columns[colno].kind))
                      /\ ~(a >= Base.arena + top /\ a < Base.arena + top') )
                    => arena'[i] = arena[i] ]_vars

====
